---- MODULE Spec2Model ----
(***************************************************************************)
(* The Ghibli storybook pipeline of main.py, main2.py and main3.py: one    *)
(* run of the button handler, from the button press to the download or    *)
(* the reported error.  The three scripts share the handler and the       *)
(* builder; `variant` says which script runs (1 = main.py, 2 = main2.py,   *)
(* 3 = main3.py).                                                          *)
(*                                                                         *)
(* Python values are tagged records: [t |-> "None"], [t |-> "str", v |->   *)
(* pieces], [t |-> "list", v |-> elements], [t |-> "dict", ...].  A string *)
(* is the sequence of its pieces, the empty string the empty sequence.     *)
(***************************************************************************)
EXTENDS Integers, Sequences, FiniteSets, TLC

\* Bound of the model: the longest story the builder is given.
MaxRecords == 5

\* ------------------------------------------------------------------------
\* Python values
\* ------------------------------------------------------------------------
PyNone == [t |-> "None"]
PyStr(pieces) == [t |-> "str", v |-> pieces]
PyList(elems) == [t |-> "list", v |-> elems]
PyInt(n) == [t |-> "int", v |-> n]
PyDict(fields) == [t |-> "dict", f |-> fields]
PyImage(px) == [t |-> "image", v |-> px]

\* bool(x) as Python computes it for the values the handler tests.
Truthy(x) ==
    CASE x.t = "None" -> FALSE
      [] x.t = "str" -> x.v # <<>>
      [] x.t = "list" -> x.v # <<>>
      [] x.t = "int" -> x.v # 0
      [] x.t = "dict" -> DOMAIN x.f # {}
      [] OTHER -> TRUE

\* len(x) is defined for str, list and dict; it raises TypeError otherwise.
HasLen(x) == x.t \in {"str", "list", "dict"}

\* The keys of a dict element in a fixed order (the order of the JSON text).
FieldOrder == <<"animal", "description", "interaction">>

RECURSIVE KeysOf(_, _)
KeysOf(fields, k) ==
    IF k > Len(FieldOrder) THEN <<>>
    ELSE (IF FieldOrder[k] \in DOMAIN fields THEN <<PyStr(<<FieldOrder[k]>>)>> ELSE <<>>)
         \o KeysOf(fields, k + 1)

\* What `for ... in enumerate(x)` yields: the elements of a list, the
\* characters of a str, the keys of a dict.
Iter(x) ==
    CASE x.t = "list" -> x.v
      [] x.t = "str" -> [k \in 1..Len(x.v) |-> PyStr(<<x.v[k]>>)]
      [] x.t = "dict" -> KeysOf(x.f, 1)
      [] OTHER -> <<>>

PyLen(x) == Len(Iter(x))

\* animal_data[key] succeeds only on a dict that has the key (KeyError on a
\* dict without it, TypeError on a str element).
CanSubscript(e, key) == e.t = "dict" /\ key \in DOMAIN e.f
Subscript(e, key) == e.f[key]

\* ------------------------------------------------------------------------
\* Inputs
\* ------------------------------------------------------------------------
Animals == <<"elephant", "giraffe", "lion", "camel", "snake", "monkey">>
Descriptions == <<"too big", "too tall", "too fierce", "too grumpy", "too scary", "too naughty">>

Pick(pool, k) == pool[((k - 1) % Len(pool)) + 1]

\* A well-formed interaction record: the k-th animal of the story.
Rec(k) ==
    PyDict([animal |-> Pick(Animals, k),
            description |-> Pick(Descriptions, k),
            interaction |-> "The child met the " \o Pick(Animals, k)])

RecList(n) == PyList([k \in 1..n |-> Rec(k)])

\* Records that lack one field, and a list whose element is no object.
RecWithout(k, key) ==
    PyDict([f \in {"animal", "description", "interaction"} \ {key} |-> Rec(k).f[f]])

\* The texts a page of the uploaded PDF can yield.
PageTexts == {<<>>, <<"s">>}

\* An uploaded PDF: unreadable (PdfReader raises), without pages, or with one
\* page that yields a text.
PdfFiles ==
    {[t |-> "pdf", readable |-> FALSE, pages |-> <<>>],
     [t |-> "pdf", readable |-> TRUE, pages |-> <<>>]}
    \cup {[t |-> "pdf", readable |-> TRUE, pages |-> <<p>>] : p \in PageTexts}

Names == {"", "Kai"}
Genders == {"she/her", "he/him", "they/them"}

\* An uploaded photo: a file PIL cannot open, a JPEG (mode RGB) or a PNG with
\* an alpha channel (mode RGBA).
Photos ==
    {[t |-> "photo", valid |-> FALSE, mode |-> "RGB"],
     [t |-> "photo", valid |-> TRUE, mode |-> "RGB"],
     [t |-> "photo", valid |-> TRUE, mode |-> "RGBA"]}

\* ------------------------------------------------------------------------
\* The analyzer's answers
\* ------------------------------------------------------------------------
\* The content of an analyzer answer is JSON text: text that does not parse,
\* an object (its key/value pairs in the order of the text) or an array.
JsonInvalid == [json |-> "invalid"]
JsonObject(pairs) == [json |-> "object", pairs |-> pairs]
JsonArray(elems) == [json |-> "array", v |-> elems]
KV(key, value) == [k |-> key, v |-> value]

\* Lists of records the analyzer can return under a key.
GoodLists == {RecList(1), RecList(2)}
BadLists ==
    {PyList(<<RecWithout(1, key)>>) : key \in {"animal", "description", "interaction"}}
    \cup {PyList(<<Rec(1), PyStr(<<"lion">>)>>),
          PyList(<<Rec(1), RecWithout(2, "description")>>)}
NonLists == {PyNone, PyInt(5), PyStr(<<>>), PyStr(<<"n">>), PyDict([animal |-> "lion"])}

AnalyzerContents ==
    {PyStr(<<>>), PyStr(<<JsonInvalid>>), PyStr(<<JsonArray(<<Rec(1)>>)>>),
     PyStr(<<JsonObject(<<>>)>>)}
    \cup {PyStr(<<JsonObject(<<KV("interactions", l)>>)>>) :
             l \in GoodLists \cup BadLists \cup NonLists \cup {PyList(<<>>)}}
    \cup {PyStr(<<JsonObject(<<KV("note", x), KV("animals", l)>>)>>) :
             x \in {PyStr(<<"n">>), PyList(<<>>)}, l \in {RecList(1), PyList(<<>>)}}
    \cup {PyStr(<<JsonObject(<<KV("animals", RecList(1)), KV("pets", RecList(2))>>)>>),
          PyStr(<<JsonObject(<<KV("animals", RecList(1)), KV("interactions", PyList(<<>>))>>)>>),
          PyStr(<<JsonObject(<<KV("interactions", PyList(<<>>)), KV("interactions", RecList(1))>>)>>)}

\* The ways a request fails: requests raises, raise_for_status raises, or the
\* answer lacks the fields the code subscripts.
RequestFailures ==
    {[t |-> "failure", why |-> w] : w \in {"network", "http_status", "missing_fields"}}
Failed(outcome) == outcome.t = "failure"

VARIABLES
    variant,            \* 1 = main.py, 2 = main2.py, 3 = main3.py
    original_pdf,       \* the uploaded PDF, or None
    OPENAI_API_KEY,     \* the credential read from the environment
    name,               \* the name text input
    gender,             \* the pronoun selectbox
    photo,              \* the uploaded photo, or None
    pc,                 \* the handler's position
    story_text,
    analysis_result,
    parsed_data,
    story_data,
    photo_description,
    user_image,
    calls,              \* the external requests issued, with their outcome
    messages,           \* st.warning / st.error / st.success shown
    pdf_buffer,         \* the buffer the builder returned
    download,           \* the download button offered
    page_colors,        \* builder: the shuffled palette (main2.py, main3.py)
    child_base_img_data,\* builder: the base image payload (main3.py)
    detailed_child_desc,\* builder: the consistency description (main3.py)
    i,                  \* builder: enumerate index of the record in hand
    img_data,           \* builder: the payload of the record in hand
    c_cur,              \* canvas: what is drawn on the page in hand
    c_pages,            \* canvas: the pages closed by showPage
    tmp_files,          \* the temporary files that exist on disk
    module_PASTEL_COLORS\* the module-level list PASTEL_COLORS (main2.py, main3.py)

widgets == <<variant, original_pdf, OPENAI_API_KEY, name, gender, photo>>
inputs == <<widgets, module_PASTEL_COLORS>>
handler == <<story_text, analysis_result, parsed_data, story_data,
             photo_description, user_image, pdf_buffer, download>>
locals == <<page_colors, child_base_img_data, detailed_child_desc, i, img_data,
            c_cur, c_pages>>
builder == <<locals, tmp_files>>
vars == <<inputs, pc, handler, calls, messages, builder>>

Msg(kind, text) == [kind |-> kind, text |-> text]

\* The list literal the scripts bind to PASTEL_COLORS when they start.
PASTEL_COLORS ==
    <<"pink", "green", "blue", "yellow", "purple", "cyan", "peach", "lavender">>

\* ------------------------------------------------------------------------
\* PDF text extraction
\* ------------------------------------------------------------------------
\* The pages taken from the last to the first.
RECURSIVE ConcatPagesReversed(_, _)
ConcatPagesReversed(pages, k) ==
    IF k > Len(pages) THEN <<>>
    ELSE ConcatPagesReversed(pages, k + 1) \o pages[k] \o <<"\n">>

\* text += page.extract_text() + "\n" over the pages, in order.
RECURSIVE ConcatPages(_, _)
ConcatPages(pages, k) ==
    IF k > Len(pages) THEN <<>>
    ELSE pages[k] \o <<"\n">> \o ConcatPages(pages, k + 1)

\* extract_text_from_pdf: the text, or None when reading raised.
extract_text_from_pdf(pdf) ==
    IF pdf.readable THEN PyStr(ConcatPages(pdf.pages, 1)) ELSE PyNone

\* The builder is not running: it has no locals.
NoLocals ==
    /\ page_colors = <<>>
    /\ child_base_img_data = PyNone
    /\ detailed_child_desc = PyNone
    /\ i = 0
    /\ img_data = PyNone
    /\ c_cur = <<>>
    /\ c_pages = <<>>

\* The builder's frame is left: its locals are gone.
DropLocals ==
    /\ page_colors' = <<>>
    /\ child_base_img_data' = PyNone
    /\ detailed_child_desc' = PyNone
    /\ i' = 0
    /\ img_data' = PyNone
    /\ c_cur' = <<>>
    /\ c_pages' = <<>>

Init ==
    /\ variant \in {1, 2, 3}
    /\ original_pdf \in {PyNone} \cup PdfFiles
    /\ OPENAI_API_KEY \in {PyNone, PyStr(<<>>), PyStr(<<"sk">>)}
    /\ name \in Names
    /\ gender \in Genders
    /\ photo \in {PyNone} \cup Photos
    /\ pc = "idle"
    /\ story_text = PyNone
    /\ analysis_result = PyNone
    /\ parsed_data = PyNone
    /\ story_data = PyNone
    /\ photo_description = PyNone
    /\ user_image = PyNone
    /\ calls = <<>>
    /\ messages = <<>>
    /\ pdf_buffer = PyNone
    /\ download = PyNone
    /\ NoLocals
    /\ tmp_files = {}
    /\ module_PASTEL_COLORS = PASTEL_COLORS

\* An except that swallows the exception: the run ends without a message.
RaiseSilently(text) ==
    /\ pc' = "done"
    /\ messages' = messages

\* The outer `except Exception as e` of the handler: report and end the run.
\* An except clause that reports the error and falls through to the lines
\* after the builder call.
RaiseAndDeliver(text) ==
    /\ pc' = "deliver"
    /\ messages' = Append(messages, Msg("error", "Error creating storybook: " \o text))

Raise(text) ==
    /\ pc' = "done"
    /\ messages' = Append(messages, Msg("error", "Error creating storybook: " \o text))

\* The credential tested with `is not None`: an empty key passes.
PipelineStartsOnEmptyKey(pdf, key) == Truthy(pdf) /\ key # PyNone

\* `if not original_pdf ... elif not OPENAI_API_KEY ... else` of the handler.
PipelineStarts(pdf, key) == Truthy(pdf) /\ Truthy(key)

ButtonPress ==
    /\ pc = "idle"
    /\ IF ~Truthy(original_pdf)
       THEN /\ pc' = "done"
            /\ messages' = Append(messages, Msg("warning", "Please upload the original story PDF"))
       ELSE IF ~PipelineStarts(original_pdf, OPENAI_API_KEY)
       THEN /\ pc' = "done"
            /\ messages' = Append(messages, Msg("error", "Missing OpenAI API key"))
       ELSE /\ pc' = "extract"
            /\ UNCHANGED messages
    /\ UNCHANGED <<inputs, handler, calls, builder>>

\* Step 1 of the handler: extract the text, abort when it is falsy.
ExtractText ==
    /\ pc = "extract"
    /\ LET text == extract_text_from_pdf(original_pdf) IN
       /\ story_text' = text
       /\ IF ~Truthy(text)
          THEN /\ pc' = "done"
               /\ messages' =
                    (IF text = PyNone
                     THEN Append(messages, Msg("error", "Error reading PDF"))
                     ELSE messages)
                    \o <<Msg("error", "Error creating storybook: Couldn't extract text from PDF")>>
          ELSE /\ pc' = "analyze"
               /\ UNCHANGED messages
    /\ UNCHANGED <<inputs, analysis_result, parsed_data, story_data,
                   photo_description, user_image, pdf_buffer, download, calls, builder>>

\* `if not analysis_result: raise ValueError(...)`.
AnalysisAborts(result) == ~Truthy(result)

\* A retry of the request after a failure.
AnalyzerRequestsRetrying(outcome) ==
    LET req == [api |-> "analyzer",
                outcome |-> IF Failed(outcome) THEN outcome.why ELSE "ok"]
    IN IF Failed(outcome) THEN <<req, req>> ELSE <<req>>

\* The requests analyze_story issues: one requests.post, whatever comes back.
AnalyzerRequests(outcome) ==
    <<[api |-> "analyzer", outcome |-> IF Failed(outcome) THEN outcome.why ELSE "ok"]>>

\* Step 2 of the handler: analyze_story issues one request; a failure is
\* reported and returns None.
AnalyzeStory ==
    /\ pc = "analyze"
    /\ \E outcome \in RequestFailures \cup AnalyzerContents :
         LET failed == Failed(outcome)
             result == IF failed THEN PyNone ELSE outcome
             shown == IF failed
                      THEN Append(messages, Msg("error", "Story analysis failed"))
                      ELSE messages
         IN /\ calls' = calls \o AnalyzerRequests(outcome)
            /\ analysis_result' = result
            /\ IF AnalysisAborts(result)
               THEN /\ pc' = "done"
                    /\ messages' = Append(shown,
                          Msg("error", "Error creating storybook: Couldn't analyze story structure"))
               ELSE /\ pc' = "parse"
                    /\ messages' = shown
    /\ UNCHANGED <<inputs, story_text, parsed_data, story_data,
                   photo_description, user_image, pdf_buffer, download, builder>>

\* dict[key] = value, as json.loads builds the object: a repeated key keeps
\* its first position and takes the last value.
DictSet(items, key, value) ==
    IF \E p \in 1..Len(items) : items[p].k = key
    THEN [p \in 1..Len(items) |->
            IF items[p].k = key THEN KV(key, value) ELSE items[p]]
    ELSE Append(items, KV(key, value))

RECURSIVE DictFromPairs(_, _)
DictFromPairs(pairs, n) ==
    IF n = 0 THEN <<>>
    ELSE DictSet(DictFromPairs(pairs, n - 1), pairs[n].k, pairs[n].v)

\* json.loads raises on None, on the empty string and on text that is no
\* JSON.
JsonParses(content) ==
    /\ content.t = "str"
    /\ content.v # <<>>
    /\ content.v[1].json # "invalid"

json_loads(content) ==
    LET doc == content.v[1] IN
    IF doc.json = "object"
    THEN [t |-> "odict", items |-> DictFromPairs(doc.pairs, Len(doc.pairs))]
    ELSE PyList(doc.v)

HasKey(d, key) == \E p \in 1..Len(d.items) : d.items[p].k = key
GetKey(d, key) == d.items[CHOOSE p \in 1..Len(d.items) : d.items[p].k = key].v

NotFound == [t |-> "notfound"]

\* `isinstance(value, list) and len(value) > 0`.
IsNonEmptyList(value) == value.t = "list" /\ Len(value.v) > 0

\* The loop without its break: the last non-empty list wins.
LastList(items, p) ==
    LET found == {q \in p..Len(items) : IsNonEmptyList(items[q].v)}
    IN IF found = {} THEN NotFound
       ELSE items[CHOOSE q \in found : \A r \in found : r <= q].v

\* The fallback loop over parsed_data.items(): the first value that is a
\* non-empty list; NotFound when the loop ends without break.
RECURSIVE FirstList(_, _)
FirstList(items, p) ==
    IF p > Len(items) THEN NotFound
    ELSE IF IsNonEmptyList(items[p].v) THEN items[p].v
    ELSE FirstList(items, p + 1)

\* A lookup that takes 'interactions' only when it is a non-empty list and
\* scans the other values otherwise.
LocateStoryDataUsable(d) ==
    IF HasKey(d, "interactions") /\ IsNonEmptyList(GetKey(d, "interactions"))
    THEN GetKey(d, "interactions")
    ELSE FirstList(d.items, 1)

\* `if 'interactions' in parsed_data: ... else: for ... else: raise`.
LocateStoryData(d) ==
    IF HasKey(d, "interactions") THEN GetKey(d, "interactions")
    ELSE FirstList(d.items, 1)

\* json.loads, parsed_data.keys(), the lookup of the sequence and
\* len(story_data): each can raise into the handler's except.
ParseLocate ==
    /\ pc = "parse"
    /\ IF ~JsonParses(analysis_result)
       THEN /\ Raise("JSONDecodeError")
            /\ UNCHANGED <<parsed_data, story_data>>
       ELSE LET parsed == json_loads(analysis_result) IN
            /\ parsed_data' = parsed
            /\ IF parsed.t # "odict"
               THEN /\ Raise("AttributeError: keys")
                    /\ UNCHANGED story_data
               ELSE LET found == LocateStoryData(parsed) IN
                    IF found = NotFound
                    THEN /\ Raise("Could not find animal interaction data in the API response")
                         /\ UNCHANGED story_data
                    ELSE /\ story_data' = found
                         /\ IF ~HasLen(found)
                            THEN Raise("TypeError: len")
                            ELSE /\ pc' = "photo"
                                 /\ UNCHANGED messages
    /\ UNCHANGED <<inputs, story_text, analysis_result, photo_description,
                   user_image, pdf_buffer, download, calls, builder>>

\* The photo-description request of the handler returns the model's text.
PhotoDescriptions == {PyStr(<<"round face, dark curly hair">>)}

\* Step 3 of the handler: open the photo and ask for its description.  Both
\* run inside the handler's try, nothing catches their exceptions before it.
PhotoStep ==
    /\ pc = "photo"
    /\ IF ~Truthy(photo)
       THEN /\ pc' = "build"
            /\ photo_description' = PyNone
            /\ user_image' = PyNone
            /\ UNCHANGED <<calls, messages>>
       ELSE IF ~photo.valid
       THEN /\ Raise("UnidentifiedImageError")
            /\ photo_description' = PyNone
            /\ user_image' = PyNone
            /\ UNCHANGED calls
       ELSE /\ user_image' = PyImage(photo.mode)
            /\ \E outcome \in RequestFailures \cup PhotoDescriptions :
                 /\ calls' = Append(calls, [api |-> "photo",
                        outcome |-> IF Failed(outcome) THEN outcome.why ELSE "ok"])
                 /\ IF Failed(outcome)
                    THEN /\ Raise(outcome.why)
                         /\ photo_description' = PyNone
                    ELSE /\ photo_description' = outcome
                         /\ pc' = "build"
                         /\ UNCHANGED messages
    /\ UNCHANGED <<inputs, story_text, analysis_result, parsed_data, story_data,
                   pdf_buffer, download, builder>>


\* ------------------------------------------------------------------------
\* The storybook builder: create_storybook (main.py) and
\* create_stylish_storybook (main2.py, main3.py).  A page is the list of what
\* was drawn on it: texts (the f-string and its arguments), images and the
\* background fill; the decorative shapes are left out.
\* ------------------------------------------------------------------------
Reverse(seq) == [k \in 1..Len(seq) |-> seq[Len(seq) + 1 - k]]

\* random.shuffle leaves some permutation of the list; two of them.
Shuffles(seq) == {seq, Reverse(seq)}

\* The pronoun table of the builder.
pronouns(g) ==
    CASE g = "she/her" -> [subject |-> "she", object |-> "her", possessive |-> "her"]
      [] g = "he/him" -> [subject |-> "he", object |-> "him", possessive |-> "his"]
      [] g = "they/them" -> [subject |-> "they", object |-> "them", possessive |-> "their"]

\* str.capitalize() and str.title() on the words the builder applies them to.
Capitalize(w) ==
    CASE w = "she" -> "She" [] w = "he" -> "He" [] w = "they" -> "They" [] OTHER -> w

Title(w) ==
    CASE w = "elephant" -> "Elephant" [] w = "giraffe" -> "Giraffe"
      [] w = "lion" -> "Lion" [] w = "camel" -> "Camel"
      [] w = "snake" -> "Snake" [] w = "monkey" -> "Monkey" [] OTHER -> w

\* gender.split('/')[0]
SplitFirst(g) ==
    CASE g = "she/her" -> "she" [] g = "he/him" -> "he" [] g = "they/them" -> "they"

\* The name the handler passes to the builder: main.py and main2.py pass
\* `name if name else "Aanya"`, main3.py passes name.
BuilderName(v, nm) == IF v \in {1, 2} THEN (IF nm # "" THEN nm ELSE "Aanya") ELSE nm

\* f"{name}, a {gender.split('/')[0]} child" if name else "a child"
child_description(nm, g) ==
    IF nm # "" THEN <<nm, ", a ", SplitFirst(g), " child">> ELSE <<"a child">>

Text(tpl, args) == [op |-> "text", tpl |-> tpl, args |-> args]
Image(src) == [op |-> "image", src |-> src]
Fill(color) == [op |-> "fill", color |-> color]

Placeholder == Text("[Illustration not available]", <<>>)

\* The records taken from the end: enumerate(reversed(story_data)).
RecordAtReversed(data, idx) == Iter(data)[PyLen(data) - idx]

\* The record the loop has in hand: enumerate index i is 0-based.
RecordAt(data, idx) == Iter(data)[idx + 1]

\* The photo clause given precedence: with a photo description the prompt
\* carries it and leaves the consistency clause out.
ScenePromptPhotoFirst(v, child, e, photo_desc, detailed) ==
    LET child_reference ==
            IF v = 3 /\ Truthy(detailed) /\ ~Truthy(photo_desc)
            THEN <<"IMPORTANT: The child must look EXACTLY like this description to maintain consistency across all illustrations: ">>
                 \o detailed.v
                 \o <<". The child should be the SAME child in EVERY way as the previous illustrations. ">>
            ELSE <<>>
        photo_clause ==
            IF Truthy(photo_desc)
            THEN <<" Child's distinctive features: ">> \o photo_desc.v
            ELSE <<>>
    IN <<"Full-body Studio Ghibli-style watercolor illustration of ">> \o child
       \o <<" interacting with a ", Subscript(e, "animal"), ". ",
            Subscript(e, "interaction"), ". ">>
       \o child_reference
       \o <<"Soft colors, delicate features, dreamy atmosphere, detailed background, whimsical details. Beautiful watercolor textures with visible brush strokes. Full-body characters in dynamic poses showing the interaction clearly.">>
       \o photo_clause

\* The interaction line put before the animal.
ScenePromptSwapped(v, child, e, photo_desc, detailed) ==
    <<"Full-body Studio Ghibli-style watercolor illustration of ">> \o child
    \o <<" interacting with a ", Subscript(e, "interaction"), ". ",
         Subscript(e, "animal"), ". ">>
    \o <<"Soft colors, delicate features, dreamy atmosphere, detailed background, whimsical details. Beautiful watercolor textures with visible brush strokes. Full-body characters in dynamic poses showing the interaction clearly.">>

\* The photo clause appended whenever there is a photo description, without
\* the `and not detailed_child_desc` of main3.py.
ScenePromptBothClauses(v, child, e, photo_desc, detailed) ==
    LET child_reference ==
            IF v = 3 /\ Truthy(detailed)
            THEN <<"IMPORTANT: The child must look EXACTLY like this description to maintain consistency across all illustrations: ">>
                 \o detailed.v
                 \o <<". The child should be the SAME child in EVERY way as the previous illustrations. ">>
            ELSE <<>>
        photo_clause ==
            IF Truthy(photo_desc)
            THEN <<" Child's distinctive features: ">> \o photo_desc.v
            ELSE <<>>
    IN <<"Full-body Studio Ghibli-style watercolor illustration of ">> \o child
       \o <<" interacting with a ", Subscript(e, "animal"), ". ",
            Subscript(e, "interaction"), ". ">>
       \o child_reference
       \o <<"Soft colors, delicate features, dreamy atmosphere, detailed background, whimsical details. Beautiful watercolor textures with visible brush strokes. Full-body characters in dynamic poses showing the interaction clearly.">>
       \o photo_clause

\* The prompt of generate_ghibli_scene, piece by piece.
ScenePrompt(v, child, e, photo_desc, detailed) ==
    LET child_reference ==
            IF v = 3 /\ Truthy(detailed)
            THEN <<"IMPORTANT: The child must look EXACTLY like this description to maintain consistency across all illustrations: ">>
                 \o detailed.v
                 \o <<". The child should be the SAME child in EVERY way as the previous illustrations. ">>
            ELSE <<>>
        photo_clause ==
            IF Truthy(photo_desc) /\ ~(v = 3 /\ Truthy(detailed))
            THEN <<" Child's distinctive features: ">> \o photo_desc.v
            ELSE <<>>
    IN <<"Full-body Studio Ghibli-style watercolor illustration of ">> \o child
       \o <<" interacting with a ", Subscript(e, "animal"), ". ",
            Subscript(e, "interaction"), ". ">>
       \o child_reference
       \o <<"Soft colors, delicate features, dreamy atmosphere, detailed background, whimsical details. Beautiful watercolor textures with visible brush strokes. Full-body characters in dynamic poses showing the interaction clearly.">>
       \o photo_clause

\* The prompt of generate_ghibli_child_base.
BasePrompt(child, photo_desc) ==
    <<"Studio Ghibli-style watercolor illustration showing a full-body portrait of ">>
    \o child \o <<". The child should be standing in a gentle, neutral pose">>
    \o (IF Truthy(photo_desc)
        THEN <<" Child's distinctive features: ">> \o photo_desc.v
        ELSE <<>>)

\* What an image request returns: a failure, a payload that decodes to an
\* image, or a payload PIL cannot open.
ImageFailure == [t |-> "failure", why |-> "http_status"]
GoodPayload(what) == PyStr(<<"b64", what>>)
BadPayload == PyStr(<<"garbage">>)
ImageOutcomes(what) == {ImageFailure, GoodPayload(what), BadPayload}

\* Image.open(BytesIO(base64.b64decode(payload))) succeeds.
Decodable(payload) == payload.v[1] = "b64"

\* An exception of the builder leaves it: its locals are gone, the handler's
\* except reports it.
BuilderRaise(text) ==
    /\ Raise(text)
    /\ DropLocals

\* The shuffle applied to the list itself: page_colors = PASTEL_COLORS
\* without .copy().
ShuffleInPlace(original, shuffled) == IF shuffled = <<>> THEN original ELSE shuffled

\* page_colors = PASTEL_COLORS.copy(): the shuffle works on the copy and the
\* module-level list stays as it is.
PaletteAfterShuffle(original, shuffled) == original

\* Lines 127-138 (main.py), 194-214 (main2.py), 327-347 (main3.py).
BuilderStart ==
    /\ pc = "build"
    /\ IF variant = 1
       THEN page_colors' = <<>>
       ELSE page_colors' \in Shuffles(module_PASTEL_COLORS)
    /\ module_PASTEL_COLORS' = PaletteAfterShuffle(module_PASTEL_COLORS, page_colors')
    /\ pc' = IF variant = 3 THEN "base" ELSE "cover"
    /\ UNCHANGED <<widgets, handler, calls, messages, child_base_img_data,
                   detailed_child_desc, i, img_data, c_cur, c_pages, tmp_files>>

\* A builder that asks for the description whatever the base request gave.
AfterBaseAlwaysDescribes(outcome) == "describe"

\* `if child_base_img_data:` (main3.py:357): the description is requested for
\* a base image, the cover follows directly without one.
AfterBase(outcome) == IF Failed(outcome) THEN "cover" ELSE "describe"

\* main3.py: the base image request, and the preview of its payload.
BaseImage ==
    /\ pc = "base"
    /\ \E outcome \in ImageOutcomes("base") :
         /\ calls' = Append(calls,
               [api |-> "base",
                outcome |-> IF Failed(outcome) THEN outcome.why ELSE "ok",
                returned |-> IF Failed(outcome) THEN PyNone ELSE outcome,
                prompt |-> BasePrompt(child_description(BuilderName(variant, name), gender),
                                      photo_description)])
         /\ IF Failed(outcome)
            THEN /\ messages' = messages
                      \o <<Msg("error", "Child base image generation failed"),
                           Msg("warning", "Could not generate base child image")>>
                 /\ pc' = AfterBase(outcome)
                 /\ UNCHANGED locals
            ELSE IF ~Decodable(outcome)
            THEN BuilderRaise("UnidentifiedImageError")
            ELSE /\ child_base_img_data' = outcome
                 /\ pc' = AfterBase(outcome)
                 /\ UNCHANGED <<messages, page_colors, detailed_child_desc, i,
                                img_data, c_cur, c_pages>>
    /\ UNCHANGED <<inputs, handler, tmp_files>>

\* The answers of the description request.
BaseDescriptions == {PyStr(<<"short brown hair, round face, red coat">>), PyStr(<<>>)}

\* The fallback of generate_detailed_child_description's except, and the one
\* of the builder for a falsy description.
DescriptionFallback(nm) ==
    PyStr(<<"A child named ", nm, " in Ghibli style with soft features and expressive eyes">>)
SimplifiedDescription(nm) ==
    PyStr(<<"A child named ", nm, " with Ghibli-style features and expressive eyes">>)

\* main3.py: generate_detailed_child_description and the lines after it.
DescribeBase ==
    /\ pc = "describe"
    /\ \E outcome \in {ImageFailure} \cup BaseDescriptions :
         LET nm == BuilderName(variant, name)
             returned ==
                IF Failed(outcome) THEN DescriptionFallback(nm)
                ELSE PyStr(outcome.v \o
                        (IF Truthy(photo_description)
                         THEN <<"\n\nAdditional distinctive features from the reference photo: ">>
                              \o photo_description.v
                         ELSE <<>>))
         IN /\ calls' = Append(calls,
                  [api |-> "describe",
                   outcome |-> IF Failed(outcome) THEN outcome.why ELSE "ok"])
            /\ detailed_child_desc' =
                  IF Truthy(returned) THEN returned ELSE SimplifiedDescription(nm)
            /\ messages' = messages
                  \o (IF Failed(outcome)
                      THEN <<Msg("error", "Error generating detailed child description")>>
                      ELSE <<>>)
                  \o (IF Truthy(returned) THEN <<>>
                      ELSE <<Msg("warning", "Using simplified child description for consistency")>>)
    /\ pc' = "cover"
    /\ UNCHANGED <<inputs, handler, page_colors, child_base_img_data, i, img_data,
                   c_cur, c_pages, tmp_files>>

TmpFile(purpose, idx) == [purpose |-> purpose, rec |-> idx]

\* user_image.save(tmp.name, format='JPEG') raises on an image with an alpha
\* channel.
SavesAsJpeg(img) == img.v # "RGBA"

CoverHead(v, nm) ==
    IF v = 1
    THEN <<Text("{name}'s Ghibli Zoo Adventure", <<nm>>),
           Text("A magical Studio Ghibli-style story", <<>>)>>
    ELSE <<Fill("light gold"),
           Text("{name}'s Magical Ghibli Zoo Adventure", <<nm>>),
           Text("{name}'s Magical Ghibli Zoo Adventure", <<nm>>),
           Text("A whimsical Studio Ghibli-style adventure", <<>>)>>

CoverFoot(v, nm) ==
    IF v = 1 THEN <<>>
    ELSE <<Text("Created especially for {name}", <<nm>>), Text("April 2025", <<>>)>>

\* The cover page, with the user's photo when there is one.
CoverPage ==
    /\ pc = "cover"
    /\ LET nm == BuilderName(variant, name)
           has_photo == Truthy(user_image)
           embedded == has_photo /\ SavesAsJpeg(user_image)
           page == CoverHead(variant, nm)
                   \o (IF embedded THEN <<Image("user_image")>> ELSE <<>>)
                   \o CoverFoot(variant, nm)
       IN /\ c_pages' = Append(c_pages, c_cur \o page)
          /\ c_cur' = <<>>
          /\ tmp_files' = IF has_photo /\ ~embedded
                          THEN tmp_files \cup {TmpFile("cover", 0)}
                          ELSE tmp_files
          /\ messages' = IF has_photo /\ ~embedded
                         THEN Append(messages, Msg("error", "Error adding user photo"))
                         ELSE messages
    /\ pc' = "intro"
    /\ UNCHANGED <<inputs, handler, calls, page_colors, child_base_img_data,
                   detailed_child_desc, i, img_data>>

IntroTexts(v, nm, g, colors) ==
    IF v = 1
    THEN <<Text("Once upon a time, {name} wrote to the zoo", <<nm>>),
           Text("to send them a pet.", <<>>),
           Text("And so the zoo began to send animals...", <<>>)>>
    ELSE <<Fill(colors[1]),
           Text("The Adventure Begins...", <<>>),
           Text("Once upon a time, in a house filled with dreams,", <<>>),
           Text("{name} wrote a special letter to the zoo.", <<nm>>),
           Text("{subject.capitalize()} asked them to send a perfect pet,",
                <<Capitalize(pronouns(g).subject)>>),
           Text("and so their magical journey began...", <<>>),
           Text("The Zoo", <<>>),
           Text("Where magical animals", <<>>),
           Text("were waiting to be discovered...", <<>>)>>

\* A loop over story_data[:-1]: the last record is left out.
LoopNextShort(data, idx) == IF idx + 1 < PyLen(data) THEN "scene" ELSE "end"

\* Where the loop `for i, animal_data in enumerate(story_data)` goes next.
LoopNext(data, idx) == IF idx < PyLen(data) THEN "scene" ELSE "end"

\* The intro page; the loop over the records starts after it.
IntroPage ==
    /\ pc = "intro"
    /\ c_pages' = Append(c_pages,
          c_cur \o IntroTexts(variant, BuilderName(variant, name), gender, page_colors))
    /\ c_cur' = <<>>
    /\ i' = 0
    /\ pc' = LoopNext(story_data, 0)
    /\ UNCHANGED <<inputs, handler, calls, messages, page_colors,
                   child_base_img_data, detailed_child_desc, img_data, tmp_files>>

\* The first story line drawn with the header, ahead of the request.
PageHeadWithStoryLine(v, e, idx, colors) ==
    (IF v = 1 THEN <<>>
     ELSE <<Fill(colors[(idx % Len(colors)) + 1]),
            Text("The {animal.title()}", <<Title(Subscript(e, "animal"))>>)>>)
    \o <<Text("They sent {name} a {animal}...", <<"", Subscript(e, "animal")>>)>>

\* The first colour of the palette for every page: page_colors[0].
PageHeadFirstColor(v, e, idx, colors) ==
    IF v = 1 THEN <<>>
    ELSE <<Fill(colors[1]),
           Text("The {animal.title()}", <<Title(Subscript(e, "animal"))>>)>>

\* What the loop draws before it asks for the illustration (main2.py and
\* main3.py: the background and the header of the page).
PageHead(v, e, idx, colors) ==
    IF v = 1 THEN <<>>
    ELSE <<Fill(colors[(idx % Len(colors)) + 1]),
           Text("The {animal.title()}", <<Title(Subscript(e, "animal"))>>)>>

\* The payload of the image request besides its prompt.
ImageOptions == [model |-> "dall-e-3", n |-> 1, size |-> "1024x1024",
                 response_format |-> "b64_json"]

\* The request posted again after a failure.
SceneRequestsRetrying(req) == IF req.outcome # "ok" THEN <<req, req>> ELSE <<req>>

\* The requests one call of generate_ghibli_scene issues: one requests.post,
\* whatever comes back.
SceneRequests(req) == <<req>>

\* The top of the loop body and generate_ghibli_scene: one request for the
\* record in hand, unless building the prompt already raised inside it.
SceneRequest ==
    /\ pc = "scene"
    /\ LET e == RecordAt(story_data, i)
           nm == BuilderName(variant, name)
       IN IF ~CanSubscript(e, "animal")
          THEN /\ BuilderRaise("KeyError or TypeError: 'animal'")
               /\ UNCHANGED calls
          ELSE /\ c_cur' = c_cur \o PageHead(variant, e, i, page_colors)
               /\ IF ~CanSubscript(e, "interaction")
                  THEN /\ img_data' = PyNone
                       /\ messages' = Append(messages, Msg("error", "Image generation failed"))
                       /\ UNCHANGED calls
                  ELSE \E outcome \in ImageOutcomes(Subscript(e, "animal")) :
                       /\ calls' = calls \o SceneRequests(
                             [api |-> "scene", rec |-> i,
                              outcome |-> IF Failed(outcome) THEN outcome.why ELSE "ok",
                              returned |-> IF Failed(outcome) THEN PyNone ELSE outcome,
                              options |-> ImageOptions,
                              prompt |-> ScenePrompt(variant, child_description(nm, gender),
                                                     e, photo_description,
                                                     detailed_child_desc)])
                       /\ img_data' = IF Failed(outcome) THEN PyNone ELSE outcome
                       /\ messages' = IF Failed(outcome)
                                      THEN Append(messages, Msg("error", "Image generation failed"))
                                      ELSE messages
               /\ pc' = "page"
               /\ UNCHANGED <<page_colors, child_base_img_data, detailed_child_desc,
                              i, c_pages>>
    /\ UNCHANGED <<inputs, handler, tmp_files>>

\* The three story lines of an animal page.
StoryLines(v, nm, e) ==
    <<Text("They sent {name} a {animal}...", <<nm, Subscript(e, "animal")>>),
      Text(IF v = 1 THEN "but it was {description}!" ELSE "But it was {description}!",
           <<Subscript(e, "description")>>),
      Text("{interaction}", <<Subscript(e, "interaction")>>)>>

\* The page number main2.py and main3.py draw at the foot of an animal page.
PageFoot(v, idx) == IF v = 1 THEN <<>> ELSE <<Text("{i+1}", <<ToString(idx + 1)>>)>>

\* What can happen once the payload is decoded: the image is saved, drawn
\* and its file unlinked, or img.save / c.drawImage raises in between.
EmbedFaults == {"none", "save_or_draw"}

\* The `else` branch of `if img_data:` left out: nothing is drawn for None.
IllustrationNoElse(payload, fault) ==
    IF Truthy(payload) /\ Decodable(payload) /\ fault = "none"
    THEN <<Image(payload.v[2])>>
    ELSE IF Truthy(payload) THEN <<Placeholder>> ELSE <<>>

\* An embedding block without its `except`: a payload that decodes is drawn
\* whatever happened while saving or drawing it.
IllustrationNoExcept(payload, fault) ==
    IF Truthy(payload) /\ Decodable(payload)
    THEN <<Image(payload.v[2])>>
    ELSE <<Placeholder>>

\* What the `if img_data:` block draws for a payload and a fault.
Illustration(payload, fault) ==
    IF Truthy(payload) /\ Decodable(payload) /\ fault = "none"
    THEN <<Image(payload.v[2])>>
    ELSE <<Placeholder>>

\* The rest of the loop body: the story lines, the illustration or its
\* placeholder, showPage.
AnimalPage ==
    /\ pc = "page"
    /\ LET e == RecordAt(story_data, i)
           nm == BuilderName(variant, name)
       IN IF ~CanSubscript(e, "description") \/ ~CanSubscript(e, "interaction")
          THEN /\ BuilderRaise("KeyError")
               /\ UNCHANGED tmp_files
          ELSE \E fault \in (IF Truthy(img_data) /\ Decodable(img_data)
                             THEN EmbedFaults ELSE {"none"}) :
               LET raised == Truthy(img_data) /\ (~Decodable(img_data) \/ fault # "none")
               IN /\ c_pages' = Append(c_pages,
                        c_cur \o StoryLines(variant, nm, e)
                              \o Illustration(img_data, fault)
                              \o PageFoot(variant, i))
                  /\ c_cur' = <<>>
                  /\ tmp_files' = IF fault = "save_or_draw"
                                  THEN tmp_files \cup {TmpFile("scene", i)}
                                  ELSE tmp_files
                  /\ messages' = IF raised
                                 THEN Append(messages, Msg("error", "Error adding illustration"))
                                 ELSE messages
                  /\ i' = i + 1
                  /\ pc' = LoopNext(story_data, i + 1)
                  /\ UNCHANGED <<page_colors, child_base_img_data,
                                 detailed_child_desc, img_data>>
    /\ UNCHANGED <<inputs, handler, calls>>

EndTexts(v, nm, g) ==
    IF v = 1
    THEN <<Text("The End", <<>>),
           Text("Hope you enjoyed your Ghibli adventure, {name}!", <<nm>>)>>
    ELSE <<Fill("light blue"),
           Text("The End", <<>>),
           Text("The End", <<>>),
           Text("And finally, they sent {name} a...", <<nm>>),
           Text("Perfect Pet!", <<>>),
           Text("It was just what {subject} wanted!", <<pronouns(g).subject>>),
           Text("Hope you enjoyed your magical Ghibli adventure, {name}!", <<nm>>),
           Text("Every story has a happy ending...", <<>>)>>

\* The final page.
EndPage ==
    /\ pc = "end"
    /\ c_pages' = Append(c_pages,
          c_cur \o EndTexts(variant, BuilderName(variant, name), gender))
    /\ c_cur' = <<>>
    /\ pc' = "save"
    /\ UNCHANGED <<inputs, handler, calls, messages, page_colors,
                   child_base_img_data, detailed_child_desc, i, img_data, tmp_files>>

\* c.save() writes the pages into the buffer and leaves its position at the
\* end; buffer.seek(0) rewinds it.
NewBuffer == [t |-> "buffer", pages |-> <<>>, saves |-> 0, pos |-> 0]
CanvasSave(buf, pages) ==
    [buf EXCEPT !.pages = pages, !.saves = @ + 1, !.pos = Len(pages)]
\* The buffer returned without the seek: its position stays where save left it.
BufferNoSeek(buf, pos) == buf

BufferSeek(buf, pos) == [buf EXCEPT !.pos = pos]

\* c.save(); buffer.seek(0); return buffer
SaveReturn ==
    /\ pc = "save"
    /\ pdf_buffer' = BufferSeek(CanvasSave(NewBuffer, c_pages), 0)
    /\ DropLocals
    /\ pc' = "deliver"
    /\ UNCHANGED <<inputs, story_text, analysis_result, parsed_data, story_data,
                   photo_description, user_image, download, calls, messages,
                   tmp_files>>

\* The file name of the download.
FileName(v, nm) ==
    IF v \in {1, 2}
    THEN <<IF nm # "" THEN nm ELSE "Aanya", "_ghibli_zoo_adventure.pdf">>
    ELSE <<nm, "_Ghibli_Storybook.pdf">>

\* st.success and st.download_button of the handler.
Deliver ==
    /\ pc = "deliver"
    /\ messages' = Append(messages, Msg("success", "Your magical Ghibli storybook is ready!"))
    /\ download' = [t |-> "download", data |-> pdf_buffer,
                    file_name |-> FileName(variant, name)]
    /\ pc' = "done"
    /\ UNCHANGED <<inputs, story_text, analysis_result, parsed_data, story_data,
                   photo_description, user_image, pdf_buffer, calls, builder>>

Next ==
    \/ ButtonPress
    \/ ExtractText
    \/ AnalyzeStory
    \/ ParseLocate
    \/ PhotoStep
    \/ BuilderStart
    \/ BaseImage
    \/ DescribeBase
    \/ CoverPage
    \/ IntroPage
    \/ SceneRequest
    \/ AnimalPage
    \/ EndPage
    \/ SaveReturn
    \/ Deliver

Spec == Init /\ [][Next]_vars

\* ------------------------------------------------------------------------
\* The builder alone, on stories of up to MaxRecords records: the state in
\* which the handler calls it, after an analysis that returned n well-formed
\* records under 'interactions'.
\* ------------------------------------------------------------------------
StoryOf(n) == PyStr(<<JsonObject(<<KV("interactions", RecList(n))>>)>>)

InitBuilder ==
    /\ variant \in {1, 2, 3}
    /\ original_pdf = [t |-> "pdf", readable |-> TRUE, pages |-> <<<<"s">>>>]
    /\ OPENAI_API_KEY = PyStr(<<"sk">>)
    /\ name = "Kai"
    /\ gender = "she/her"
    /\ photo = PyNone
    /\ pc = "build"
    /\ story_text = extract_text_from_pdf(original_pdf)
    /\ \E n \in 0..MaxRecords :
         /\ analysis_result = StoryOf(n)
         /\ parsed_data = json_loads(StoryOf(n))
         /\ story_data = LocateStoryData(json_loads(StoryOf(n)))
    /\ photo_description = PyNone
    /\ user_image = PyNone
    /\ calls = <<[api |-> "analyzer", outcome |-> "ok"]>>
    /\ messages = <<>>
    /\ pdf_buffer = PyNone
    /\ download = PyNone
    /\ NoLocals
    /\ tmp_files = {}
    /\ module_PASTEL_COLORS = PASTEL_COLORS

NextBuilder ==
    \/ BuilderStart
    \/ BaseImage
    \/ DescribeBase
    \/ CoverPage
    \/ IntroPage
    \/ SceneRequest
    \/ AnimalPage
    \/ EndPage
    \/ SaveReturn

SpecBuilder == InitBuilder /\ [][NextBuilder]_vars
\* ------------------------------------------------------------------------
\* Properties
\* ------------------------------------------------------------------------
\* The pages of the document: those of the returned buffer, or those closed
\* so far while the builder runs.
Pages == IF pdf_buffer.t = "buffer" THEN pdf_buffer.pages ELSE c_pages

HasText(page, tpls) ==
    \E k \in 1..Len(page) : page[k].op = "text" /\ page[k].tpl \in tpls
HasImage(page) == \E k \in 1..Len(page) : page[k].op = "image"

IsCover(page) ==
    HasText(page, {"{name}'s Ghibli Zoo Adventure", "{name}'s Magical Ghibli Zoo Adventure"})
IsIntro(page) ==
    HasText(page, {"Once upon a time, {name} wrote to the zoo", "The Adventure Begins..."})
IsAnimalPage(page) == HasText(page, {"They sent {name} a {animal}..."})
IsEnd(page) == HasText(page, {"The End"})

KindsOf(page) ==
    (IF IsCover(page) THEN {"cover"} ELSE {}) \cup (IF IsIntro(page) THEN {"intro"} ELSE {})
    \cup (IF IsAnimalPage(page) THEN {"animal"} ELSE {}) \cup (IF IsEnd(page) THEN {"end"} ELSE {})

CountKind(pages, kind) == Cardinality({k \in 1..Len(pages) : KindsOf(pages[k]) = {kind}})

\* The page tells the story of record e: its three lines carry e's fields.
TellsRecord(page, e) ==
    /\ \E k \in 1..Len(page) :
          /\ page[k].op = "text" /\ page[k].tpl = "They sent {name} a {animal}..."
          /\ page[k].args[2] = Subscript(e, "animal")
    /\ \E k \in 1..Len(page) :
          /\ page[k].op = "text"
          /\ page[k].tpl \in {"but it was {description}!", "But it was {description}!"}
          /\ page[k].args = <<Subscript(e, "description")>>
    /\ \E k \in 1..Len(page) :
          /\ page[k].op = "text" /\ page[k].tpl = "{interaction}"
          /\ page[k].args = <<Subscript(e, "interaction")>>

SceneCalls == {k \in 1..Len(calls) : calls[k].api = "scene"}
Returned == pc = "deliver"

\* C1: for a story of N well-formed records, whatever image requests fail,
\* the document the builder returns has N+3 pages: one cover, one intro, N
\* animal pages, one end page (8 pages for N = 5); the builder gives up on
\* such a story only in main3.py, before its first page, on a base payload
\* that is no image.
C1_PageCount ==
    LET N == PyLen(story_data) IN
    /\ Returned =>
          /\ Len(Pages) = N + 3
          /\ CountKind(Pages, "cover") = 1
          /\ CountKind(Pages, "intro") = 1
          /\ CountKind(Pages, "animal") = N
          /\ CountKind(Pages, "end") = 1
          /\ (N = 5 => Len(Pages) = 8)
    /\ pc = "done" => variant = 3 /\ SceneCalls = {} /\ calls[Len(calls)].api = "base"

\* C1 witness: a returned document of a story of two or more records, with a
\* failed and a successful image request.
C1_Witness ==
    /\ Returned
    /\ PyLen(story_data) >= 2
    /\ Len(Pages) = PyLen(story_data) + 3
    /\ \E a, b \in SceneCalls : calls[a].outcome # "ok" /\ calls[b].outcome = "ok"

\* C2: the pages are emitted in the order cover, intro, one page per record
\* in the order of story_data (none skipped, none repeated), end; the end
\* page is the last one of the returned document.
C2_PageOrder ==
    LET N == PyLen(story_data) IN
    /\ Len(Pages) <= N + 3
    /\ \A k \in 1..Len(Pages) :
          /\ k = 1 => KindsOf(Pages[k]) = {"cover"}
          /\ k = 2 => KindsOf(Pages[k]) = {"intro"}
          /\ (k >= 3 /\ k <= N + 2) =>
                /\ KindsOf(Pages[k]) = {"animal"}
                /\ TellsRecord(Pages[k], Iter(story_data)[k - 2])
          /\ k = N + 3 => KindsOf(Pages[k]) = {"end"}
    /\ Returned => Len(Pages) = N + 3

\* C2 witness: a returned document with three or more animal pages.
C2_Witness ==
    /\ Returned
    /\ PyLen(story_data) >= 3
    /\ KindsOf(Pages[Len(Pages)]) = {"end"}
    /\ TellsRecord(Pages[5], Iter(story_data)[3])

\* The page of a record whose request returned None: the three story lines,
\* the placeholder, no image.
IsPlaceholderPage(page, e) ==
    /\ TellsRecord(page, e)
    /\ HasText(page, {"[Illustration not available]"})
    /\ ~HasImage(page)

\* C3: when the image request of a record returns None, the record's page is
\* still emitted with its three story lines and the placeholder and without
\* an image, the run is not aborted, and the remaining records and the rest
\* of the document follow.
C3_FailedImagePage ==
    \A k \in SceneCalls :
        ~Truthy(calls[k].returned) =>
            LET r == calls[k].rec IN
            /\ pc # "done"
            /\ (pc # "page" \/ i # r) =>
                  /\ Len(Pages) >= r + 3
                  /\ IsPlaceholderPage(Pages[r + 3], Iter(story_data)[r + 1])
            /\ Returned => Len(Pages) = PyLen(story_data) + 3

\* C3 witness: a returned document in which the first record's request
\* failed and a later one succeeded.
C3_Witness ==
    /\ Returned
    /\ \E a, b \in SceneCalls :
          /\ calls[a].rec = 0 /\ ~Truthy(calls[a].returned)
          /\ calls[b].rec > 0 /\ Truthy(calls[b].returned)
          /\ IsPlaceholderPage(Pages[3], Iter(story_data)[1])
          /\ HasImage(Pages[calls[b].rec + 3])

AnalyzerCalls == {k \in 1..Len(calls) : calls[k].api = "analyzer"}
ErrorReported == \E k \in 1..Len(messages) : messages[k].kind = "error"

\* The analyzer was asked and gave nothing usable: the call failed, or its
\* content is no valid JSON.
AnalysisUnusable == AnalyzerCalls # {} /\ ~JsonParses(analysis_result)

\* C4: when the analyzer call fails or its content is no valid JSON, the run
\* aborts with a reported error: no image request is issued, no document is
\* produced or offered, the builder never runs and the analyzer is asked
\* once.
C4_AnalyzerFailureAborts ==
    AnalysisUnusable =>
        /\ pc \in {"parse", "done"}
        /\ Cardinality(AnalyzerCalls) = 1
        /\ \A k \in 1..Len(calls) : calls[k].api \notin {"scene", "base"}
        /\ pdf_buffer = PyNone
        /\ download = PyNone
        /\ c_pages = <<>>
        /\ pc = "done" => ErrorReported

\* C4 witness: runs ended by a failed analyzer request and by content that
\* is no JSON.
C4_Witness ==
    /\ pc = "done"
    /\ AnalysisUnusable
    /\ ErrorReported
    /\ \/ calls[1].outcome = "http_status"
       \/ analysis_result = PyStr(<<JsonInvalid>>)

\* No top-level value of the parsed object is a non-empty list.
NoUsableSequence(d) ==
    d.t = "odict" /\ \A p \in 1..Len(d.items) : ~IsNonEmptyList(d.items[p].v)

\* C5: when the parsed object holds no usable interaction sequence, the run
\* ends with an error and no document is produced.
C5_NoSequenceIsFatal ==
    NoUsableSequence(parsed_data) =>
        /\ pdf_buffer = PyNone
        /\ download = PyNone

\* C6: without a key 'interactions', story_data is the value of the first
\* key, in the object's key order, whose value is a non-empty list.
C6_FallbackFirstList ==
    (parsed_data.t = "odict" /\ ~HasKey(parsed_data, "interactions")) =>
        LET lists == {p \in 1..Len(parsed_data.items) :
                         IsNonEmptyList(parsed_data.items[p].v)}
        IN lists # {} =>
              /\ story_data = parsed_data.items[CHOOSE p \in lists :
                                                  \A q \in lists : p <= q].v
              /\ pc # "parse"

\* C6 witness: two lists under other keys, the first one taken; and an empty
\* list skipped before the one taken.
C6_Witness ==
    /\ parsed_data.t = "odict"
    /\ ~HasKey(parsed_data, "interactions")
    /\ Len(parsed_data.items) = 2
    /\ \/ /\ IsNonEmptyList(parsed_data.items[1].v)
          /\ IsNonEmptyList(parsed_data.items[2].v)
          /\ parsed_data.items[1].v # parsed_data.items[2].v
          /\ story_data = parsed_data.items[1].v
       \/ /\ parsed_data.items[1].v = PyList(<<>>)
          /\ story_data = parsed_data.items[2].v
    /\ pc = "deliver"

\* The PDF is unreadable, has no pages, or no page of it yields text.
NoTextInPdf(pdf) ==
    pdf.t = "pdf" /\ (~pdf.readable \/ \A k \in 1..Len(pdf.pages) : pdf.pages[k] = <<>>)

\* C7: a PDF with extractable text gives a non-empty text; for an empty or
\* unreadable PDF the run reports failure and makes no downstream call.
C7_EmptyPdfStops ==
    /\ (original_pdf.t = "pdf" /\ ~NoTextInPdf(original_pdf) /\ pc \notin {"idle", "extract"}
          /\ Truthy(OPENAI_API_KEY)) => Truthy(story_text)
    /\ NoTextInPdf(original_pdf) =>
          /\ calls = <<>>
          /\ pdf_buffer = PyNone
          /\ download = PyNone

\* C8: with no PDF uploaded or no credential the pipeline does not start: one
\* message is shown, nothing is extracted, requested or built.
C8_InputErrorsStop ==
    (~Truthy(original_pdf) \/ ~Truthy(OPENAI_API_KEY)) =>
        /\ pc \in {"idle", "done"}
        /\ story_text = PyNone
        /\ calls = <<>>
        /\ c_pages = <<>>
        /\ pdf_buffer = PyNone
        /\ download = PyNone
        /\ pc = "done" =>
              /\ Len(messages) = 1
              /\ messages[1].kind \in {"warning", "error"}

\* C8 witness: the button pressed with a PDF and an empty credential.
C8_Witness ==
    /\ pc = "done"
    /\ Truthy(original_pdf)
    /\ OPENAI_API_KEY = PyStr(<<>>)
    /\ messages = <<Msg("error", "Missing OpenAI API key")>>

PhotoCallFailed == \E k \in 1..Len(calls) : calls[k].api = "photo" /\ calls[k].outcome # "ok"

\* C9: a failed photo-description request is reported and the run goes on
\* without a description: the builder is called and a document is produced.
C9_PhotoFailureContinues ==
    PhotoCallFailed =>
        /\ photo_description = PyNone
        /\ pc = "done" => (pdf_buffer # PyNone /\ download # PyNone)

\* A step of the character base failed: the base request, its payload, or
\* the description request.
BaseStepFailed ==
    \E k \in 1..Len(calls) :
        \/ calls[k].api = "base"
           /\ (~Truthy(calls[k].returned) \/ ~Decodable(calls[k].returned))
        \/ calls[k].api = "describe" /\ calls[k].outcome # "ok"

\* C10: in main3.py a failure of a character-base step never aborts the run;
\* detailed_child_desc becomes a fallback description naming the child and
\* the builder emits its pages.
C10_BaseFailureFallback ==
    (variant = 3 /\ BaseStepFailed) =>
        /\ pc \in {"cover", "intro", "scene", "page", "end", "save"} =>
              detailed_child_desc \in {DescriptionFallback(BuilderName(variant, name)),
                                       SimplifiedDescription(BuilderName(variant, name))}
        /\ pc = "done" => (pdf_buffer # PyNone /\ download # PyNone)

\* C11: every temporary file the builder creates for an image is deleted
\* before the builder moves on to the next page or returns, also when saving
\* or drawing the image raised: no temporary file is left on disk.
C11_TempFilesDeleted == tmp_files = {}

CallsTo(api) == {k \in 1..Len(calls) : calls[k].api = api}
SceneCallsFor(r) == {k \in SceneCalls : calls[k].rec = r}

\* The builder is in its loop or past it, so that i counts the records done.
InLoop == pc \in {"scene", "page", "end", "save"}

\* The prompt of the record can be built: it has the fields the prompt uses.
PromptBuilds(e) == CanSubscript(e, "animal") /\ CanSubscript(e, "interaction")

\* C12: every external call is attempted once and never retried: at most one
\* analyzer request and one photo request per run; never two image requests
\* for one record; each record the loop is done with, and the record in hand
\* once generate_ghibli_scene has returned, has exactly one, whether it
\* failed or not; the image requests are issued in record order; and a
\* returned document has one request for each of its records.
C12_SingleAttempt ==
    /\ Cardinality(CallsTo("analyzer")) <= 1
    /\ Cardinality(CallsTo("photo")) <= 1
    /\ \A a, b \in SceneCalls : a < b => calls[a].rec < calls[b].rec
    /\ \A r \in 0..(PyLen(story_data) - 1) :
          /\ Cardinality(SceneCallsFor(r)) <= 1
          /\ (InLoop /\ r < i) => Cardinality(SceneCallsFor(r)) = 1
          /\ (pc = "page" /\ r = i /\ PromptBuilds(RecordAt(story_data, i))) =>
                Cardinality(SceneCallsFor(r)) = 1
          /\ (InLoop /\ (r > i \/ (r = i /\ pc = "scene"))) => SceneCallsFor(r) = {}
          /\ Returned => Cardinality(SceneCallsFor(r)) = 1

\* C12 witness: a delivered run with one analyzer request, one photo request
\* and two image requests in record order, the first one failed.
C12_Witness ==
    /\ Returned
    /\ Cardinality(CallsTo("analyzer")) = 1
    /\ Cardinality(CallsTo("photo")) = 1
    /\ PyLen(story_data) = 2
    /\ \E a, b \in SceneCalls :
          /\ a < b
          /\ calls[a].rec = 0 /\ calls[a].outcome # "ok"
          /\ calls[b].rec = 1 /\ calls[b].outcome = "ok"

\* The words of a drawn text that stand for the child: the pronoun a
\* template takes from the table, and the pronoun main.py writes out in its
\* intro sentence "{name} wrote to the zoo / to send them a pet.".
ChildPronounsOf(d) ==
    IF d.op # "text" THEN {}
    ELSE IF d.tpl \in {"{subject.capitalize()} asked them to send a perfect pet,",
                       "It was just what {subject} wanted!"}
    THEN {d.args[1]}
    ELSE IF d.tpl = "to send them a pet." THEN {"them"}
    ELSE {}

\* The forms of one pronoun set, as the table gives them and capitalized.
FormsOf(g) ==
    {pronouns(g).subject, pronouns(g).object, pronouns(g).possessive,
     Capitalize(pronouns(g).subject)}

\* C13: every pronoun for the child on a page of the document is a form the
\* table gives for the selected pronoun set.
C13_PronounsConsistent ==
    \A k \in 1..Len(Pages) : \A p \in 1..Len(Pages[k]) :
        ChildPronounsOf(Pages[k][p]) \subseteq FormsOf(gender)

\* The templates whose first argument is the child's name.
NameTemplates ==
    {"{name}'s Ghibli Zoo Adventure", "{name}'s Magical Ghibli Zoo Adventure",
     "Created especially for {name}", "Once upon a time, {name} wrote to the zoo",
     "{name} wrote a special letter to the zoo.", "They sent {name} a {animal}...",
     "And finally, they sent {name} a...",
     "Hope you enjoyed your Ghibli adventure, {name}!",
     "Hope you enjoyed your magical Ghibli adventure, {name}!"}

\* C14: with a blank name input the name is 'Aanya' wherever it appears: in
\* every text of the document that carries the name, and at the start of the
\* download's file name, which is never empty.
C14_DefaultName ==
    /\ name = "" =>
          /\ \A k \in 1..Len(Pages) : \A p \in 1..Len(Pages[k]) :
                (Pages[k][p].op = "text" /\ Pages[k][p].tpl \in NameTemplates) =>
                    Pages[k][p].args[1] = "Aanya"
          /\ download # PyNone => download.file_name[1] = "Aanya"
    /\ download # PyNone => download.file_name[1] # ""

\* The place of a request in the order of the steps.
StepRank(api) ==
    CASE api = "analyzer" -> 1 [] api = "photo" -> 2 [] api = "base" -> 3
      [] api = "describe" -> 4 [] api = "scene" -> 5

\* Something is drawn on the canvas.
Drawn == c_pages # <<>> \/ c_cur # <<>>

\* The steps follow one another: extraction, analysis, photo description,
\* base character, image requests.
StepsFollow ==
    /\ \A a, b \in 1..Len(calls) : a < b => StepRank(calls[a].api) <= StepRank(calls[b].api)
    /\ calls # <<>> => Truthy(story_text)
    /\ (user_image # PyNone \/ \E k \in 1..Len(calls) : calls[k].api # "analyzer") =>
          (Truthy(analysis_result) /\ story_data # PyNone)
    /\ pc \in {"build", "base", "describe"} => ~Drawn

\* C15 as stated: the steps follow one another, and every image request has
\* returned before the first page is drawn.
C15_ImagesBeforeAssembly ==
    /\ StepsFollow
    /\ Drawn => Cardinality(SceneCalls) = PyLen(story_data)

\* C15 amended: the steps follow one another and the builder interleaves the
\* image requests with the pages: cover and intro are closed before the first
\* request; the request of record i is issued when the pages of the records
\* before it are closed, and it has returned before that record's story lines
\* are drawn and its page is closed.
C15_StepsInterleaved ==
    /\ StepsFollow
    /\ pc \in {"cover", "intro"} => SceneCalls = {}
    /\ pc = "scene" =>
          /\ Len(c_pages) = i + 2
          /\ c_cur = <<>>
          /\ Cardinality(SceneCalls) = i
    /\ pc = "page" =>
          /\ Len(c_pages) = i + 2
          /\ ~IsAnimalPage(c_cur)
          /\ PromptBuilds(RecordAt(story_data, i)) => SceneCallsFor(i) # {}
    /\ \A k \in 1..Len(Pages) :
          IsAnimalPage(Pages[k]) =>
              /\ k >= 3
              /\ SceneCallsFor(k - 3) # {}

\* C15 witness: main3.py between two records: photo, base and description
\* requests done, cover, intro and the first record's page closed, the first
\* record's request returned and the second one's still to be issued.
C15_Witness ==
    /\ variant = 3
    /\ pc = "scene"
    /\ i = 1
    /\ PyLen(story_data) = 2
    /\ Len(c_pages) = 3
    /\ IsAnimalPage(c_pages[3])
    /\ [k \in 1..Len(calls) |-> calls[k].api]
          = <<"analyzer", "photo", "base", "describe", "scene">>

\* A record that lacks one of its three fields.
LacksField(e) ==
    e.t = "dict" /\ \E key \in {"animal", "description", "interaction"} : key \notin DOMAIN e.f

LackingRecords ==
    IF story_data.t = "list"
    THEN {k \in 1..Len(story_data.v) : LacksField(story_data.v[k])}
    ELSE {}

\* C16 as stated: the builder does not reject a record that lacks a field:
\* with such a record in hand it goes on to the record's page and never
\* leaves through an exception.
C16_MissingFieldTolerated ==
    [][(pc \in {"scene", "page"} /\ LacksField(RecordAt(story_data, i))) => pc' # "done"]_vars

\* C16 amended: the builder does not validate a record, and reading the
\* field it lacks raises: no page is drawn for the record, the builder never
\* reaches its end page, no document is produced or offered, and the run
\* ends with a reported error.  A record lacking 'animal' or 'interaction'
\* gets no image request.
C16_MissingFieldAborts ==
    LackingRecords # {} =>
        /\ pc \notin {"end", "save", "deliver"}
        /\ pdf_buffer = PyNone
        /\ download = PyNone
        /\ \A k \in LackingRecords :
              /\ Len(Pages) < k + 2
              /\ ~PromptBuilds(story_data.v[k]) => SceneCallsFor(k - 1) = {}
        /\ pc = "done" => ErrorReported

\* C16 witness: a story whose second record lacks 'description': the first
\* record's page was drawn, the second record's image was requested, and the
\* run ended in the KeyError of the story line.
C16_Witness ==
    /\ pc = "done"
    /\ story_data = PyList(<<Rec(1), RecWithout(2, "description")>>)
    /\ Cardinality(SceneCalls) = 2
    /\ messages[Len(messages)] = Msg("error", "Error creating storybook: KeyError")
    /\ download = PyNone

\* C17: the buffer the builder returns is one finished document: the canvas
\* was saved into it once, it holds all the pages up to the end page, its
\* read position is 0, and nothing is drawn after the save: the canvas is
\* gone and the buffer offered for download is the one returned.
C17_BufferFinished ==
    pdf_buffer # PyNone =>
        /\ pdf_buffer.t = "buffer"
        /\ pdf_buffer.saves = 1
        /\ pdf_buffer.pos = 0
        /\ Len(pdf_buffer.pages) = PyLen(story_data) + 3
        /\ IsEnd(pdf_buffer.pages[Len(pdf_buffer.pages)])
        /\ ~Drawn
        /\ pc \in {"deliver", "done"}
        /\ download # PyNone => download.data = pdf_buffer

\* C17 witness: a delivered document of two records.
C17_Witness ==
    /\ pc = "done"
    /\ download # PyNone
    /\ download.data.saves = 1
    /\ download.data.pos = 0
    /\ Len(download.data.pages) = 5

AnchorOpens ==
    "IMPORTANT: The child must look EXACTLY like this description to maintain consistency across all illustrations: "
AnchorCloses ==
    ". The child should be the SAME child in EVERY way as the previous illustrations. "

\* The description a scene prompt carries in its consistency clause, None
\* when the prompt has no such clause.
AnchorOf(prompt) ==
    IF \E m \in 1..Len(prompt) : prompt[m] = AnchorOpens
    THEN LET m == CHOOSE m \in 1..Len(prompt) : prompt[m] = AnchorOpens
             n == CHOOSE n \in (m + 1)..Len(prompt) : prompt[n] = AnchorCloses
         IN PyStr(SubSeq(prompt, m + 1, n - 1))
    ELSE PyNone

\* C18: in main3.py the base image and its description are each requested at
\* most once per document, both before the first scene request, and every
\* scene request of the document carries the same detailed_child_desc: the
\* value the builder holds throughout the loop.
C18_OneAnchor ==
    variant = 3 =>
        /\ Cardinality(CallsTo("base")) <= 1
        /\ Cardinality(CallsTo("describe")) <= 1
        /\ \A a \in CallsTo("base") \cup CallsTo("describe") : \A b \in SceneCalls : a < b
        /\ \A a, b \in SceneCalls : AnchorOf(calls[a].prompt) = AnchorOf(calls[b].prompt)
        /\ InLoop =>
              \A a \in SceneCalls :
                  AnchorOf(calls[a].prompt) =
                      (IF Truthy(detailed_child_desc) THEN detailed_child_desc ELSE PyNone)
        /\ (CallsTo("describe") # {} /\ pc \in {"cover", "intro", "scene", "page", "end", "save"}) =>
              Truthy(detailed_child_desc)

\* C18 witness: a main3.py document with a photo, one base request, one
\* description request and two scene requests that carry the same
\* description.
C18_Witness ==
    /\ variant = 3
    /\ pc = "save"
    /\ Truthy(photo_description)
    /\ Cardinality(CallsTo("base")) = 1
    /\ Cardinality(CallsTo("describe")) = 1
    /\ Cardinality(SceneCalls) = 2
    /\ \A a \in SceneCalls : AnchorOf(calls[a].prompt) = detailed_child_desc
    /\ Truthy(detailed_child_desc)

\* ------------------------------------------------------------------------
\* Text extraction alone, on PDFs of up to MaxPdfPages pages.
\* ------------------------------------------------------------------------
\* Bound of the model: the longest PDF given to extract_text_from_pdf.
MaxPdfPages == 3

\* The texts page.extract_text() yields for the pages of these PDFs.
ExtractTexts == {<<>>, <<"Dear zoo,">>, <<"They sent me", " an elephant.">>, <<"The end">>}

PdfsOfLen(n) ==
    {[t |-> "pdf", readable |-> r, pages |-> p] :
        r \in BOOLEAN, p \in [1..n -> ExtractTexts]}

InitExtract ==
    /\ variant \in {1, 2, 3}
    /\ \E n \in 0..MaxPdfPages : original_pdf \in PdfsOfLen(n)
    /\ OPENAI_API_KEY = PyStr(<<"sk">>)
    /\ name = "Kai"
    /\ gender = "she/her"
    /\ photo = PyNone
    /\ pc = "extract"
    /\ story_text = PyNone
    /\ analysis_result = PyNone
    /\ parsed_data = PyNone
    /\ story_data = PyNone
    /\ photo_description = PyNone
    /\ user_image = PyNone
    /\ calls = <<>>
    /\ messages = <<>>
    /\ pdf_buffer = PyNone
    /\ download = PyNone
    /\ NoLocals
    /\ tmp_files = {}
    /\ module_PASTEL_COLORS = PASTEL_COLORS

NextExtract == ExtractText

SpecExtract == InitExtract /\ [][NextExtract]_vars

\* Where the text of page k starts in the extracted text when every page
\* before it is followed by `sep` more pieces.
RECURSIVE StartOf(_, _, _)
StartOf(pages, k, sep) ==
    IF k = 1 THEN 0 ELSE StartOf(pages, k - 1, sep) + Len(pages[k - 1]) + sep

\* Page k's text stands at its place in text r, after the texts of the pages
\* before it, each followed by one newline.
PageAt(r, pages, k) ==
    LET s == StartOf(pages, k, 1) IN
    /\ Len(r) >= s + Len(pages[k])
    /\ SubSeq(r, s + 1, s + Len(pages[k])) = pages[k]
    /\ k < Len(pages) => (Len(r) > s + Len(pages[k]) /\ r[s + Len(pages[k]) + 1] = "\n")

Extracted == pc # "extract" /\ original_pdf.t = "pdf" /\ original_pdf.readable

\* C20 as stated: the result is t1 + '\n' + t2 + ... + tn: the pages' texts
\* in order, a single newline between consecutive pages and nothing else.
C20_JoinedByNewline ==
    Extracted =>
        LET pages == original_pdf.pages
            n == Len(pages)
        IN /\ story_text.t = "str"
           /\ \A k \in 1..n : PageAt(story_text.v, pages, k)
           /\ Len(story_text.v) = IF n = 0 THEN 0 ELSE StartOf(pages, n, 1) + Len(pages[n])

\* C20 amended: the result is t1 + '\n' + t2 + '\n' + ... + tn + '\n': the
\* pages' texts in order, each page followed by one newline, the last page
\* too; the empty string for a PDF without pages.
C20_EachPageThenNewline ==
    Extracted =>
        LET pages == original_pdf.pages
            n == Len(pages)
        IN /\ story_text.t = "str"
           /\ \A k \in 1..n : PageAt(story_text.v, pages, k)
           /\ Len(story_text.v) = IF n = 0 THEN 0 ELSE StartOf(pages, n, 1) + Len(pages[n]) + 1
           /\ n > 0 => story_text.v[Len(story_text.v)] = "\n"

\* C20 witness: the text of a PDF of three pages with three different texts,
\* one of them empty.
C20_Witness ==
    /\ Extracted
    /\ Len(original_pdf.pages) = 3
    /\ original_pdf.pages[1] = <<"Dear zoo,">>
    /\ original_pdf.pages[2] = <<>>
    /\ original_pdf.pages[3] = <<"They sent me", " an elephant.">>
    /\ story_text = PyStr(<<"Dear zoo,", "\n", "\n", "They sent me", " an elephant.", "\n">>)

\* ------------------------------------------------------------------------
\* generate_ghibli_scene alone: the builder at its first record, on every
\* combination of the arguments the function takes.
\* ------------------------------------------------------------------------
PromptStories == {RecList(2), PyList(<<Rec(1), Rec(1)>>)}
PromptPhotoDescriptions == {PyNone, PyStr(<<>>)} \cup PhotoDescriptions
PromptDetailed(v) == IF v = 3 THEN {PyNone} \cup BaseDescriptions ELSE {PyNone}

InitPrompt ==
    /\ variant \in {1, 2, 3}
    /\ original_pdf = [t |-> "pdf", readable |-> TRUE, pages |-> <<<<"s">>>>]
    /\ OPENAI_API_KEY = PyStr(<<"sk">>)
    /\ name \in Names
    /\ gender \in Genders
    /\ photo = PyNone
    /\ pc = "scene"
    /\ story_text = extract_text_from_pdf(original_pdf)
    /\ \E data \in PromptStories :
         /\ analysis_result = PyStr(<<JsonObject(<<KV("interactions", data)>>)>>)
         /\ parsed_data = json_loads(analysis_result)
         /\ story_data = data
    /\ photo_description \in PromptPhotoDescriptions
    /\ user_image = PyNone
    /\ calls = <<[api |-> "analyzer", outcome |-> "ok"]>>
    /\ messages = <<>>
    /\ pdf_buffer = PyNone
    /\ download = PyNone
    /\ page_colors = IF variant = 1 THEN <<>> ELSE PASTEL_COLORS
    /\ child_base_img_data = PyNone
    /\ detailed_child_desc \in PromptDetailed(variant)
    /\ i = 0
    /\ img_data = PyNone
    /\ c_cur = <<>>
    /\ c_pages = <<CoverHead(variant, BuilderName(variant, name))
                      \o CoverFoot(variant, BuilderName(variant, name)),
                   IntroTexts(variant, BuilderName(variant, name), gender, page_colors)>>
    /\ tmp_files = {}
    /\ module_PASTEL_COLORS = PASTEL_COLORS

NextPrompt ==
    \/ SceneRequest
    \/ AnimalPage

SpecPrompt == InitPrompt /\ [][NextPrompt]_vars

ScenePreamble == "Full-body Studio Ghibli-style watercolor illustration of "
SceneQualifiers ==
    "Soft colors, delicate features, dreamy atmosphere, detailed background, whimsical details. Beautiful watercolor textures with visible brush strokes. Full-body characters in dynamic poses showing the interaction clearly."

\* The prompt q reads: preamble, child descriptor, animal, interaction line,
\* and further on the qualifiers, once.
PromptInOrder(q, child, e) ==
    LET c == Len(child) IN
    /\ Len(q) >= c + 7
    /\ q[1] = ScenePreamble
    /\ SubSeq(q, 2, c + 1) = child
    /\ q[c + 2] = " interacting with a "
    /\ q[c + 3] = Subscript(e, "animal")
    /\ q[c + 4] = ". "
    /\ q[c + 5] = Subscript(e, "interaction")
    /\ q[c + 6] = ". "
    /\ Cardinality({m \in 1..Len(q) : q[m] = SceneQualifiers}) = 1
    /\ \E m \in (c + 7)..Len(q) : q[m] = SceneQualifiers

\* C21: the prompt of generate_ghibli_scene depends on its arguments only:
\* two requests for equal records in one document carry identical prompts;
\* every prompt reads preamble, child descriptor, the record's animal, the
\* record's interaction line and then the qualifiers; every request asks for
\* one image (n = 1) as an inline base64 payload.
C21_PromptDeterministic ==
    /\ \A a \in SceneCalls :
          /\ PromptInOrder(calls[a].prompt,
                           child_description(BuilderName(variant, name), gender),
                           RecordAt(story_data, calls[a].rec))
          /\ calls[a].options.n = 1
          /\ calls[a].options.response_format = "b64_json"
    /\ \A a, b \in SceneCalls :
          RecordAt(story_data, calls[a].rec) = RecordAt(story_data, calls[b].rec)
              => calls[a].prompt = calls[b].prompt

\* C21 witness: two requests for two equal records, with a consistency
\* clause in their prompts.
C21_Witness ==
    /\ Cardinality(SceneCalls) = 2
    /\ story_data = PyList(<<Rec(1), Rec(1)>>)
    /\ Truthy(detailed_child_desc)
    /\ \A a, b \in SceneCalls : calls[a].prompt = calls[b].prompt
    /\ \A a \in SceneCalls : AnchorOf(calls[a].prompt) = detailed_child_desc

PhotoClauseOpens == " Child's distinctive features: "

\* The prompt carries the consistency clause / the photo clause.
HasAnchorClause(q) == \E m \in 1..Len(q) : q[m] = AnchorOpens
HasPhotoClause(q) == \E m \in 1..Len(q) : q[m] = PhotoClauseOpens

\* The photo description a prompt ends with.
PhotoClauseOf(q) ==
    LET m == CHOOSE m \in 1..Len(q) : q[m] = PhotoClauseOpens
    IN PyStr(SubSeq(q, m + 1, Len(q)))

\* C27: in main3.py the prompt has the consistency clause, with
\* detailed_child_desc in it, exactly when detailed_child_desc is non-empty,
\* and the photo clause, with photo_description in it, exactly when
\* photo_description is non-empty and detailed_child_desc is empty: never
\* both.  In main.py and main2.py the prompt has the photo clause exactly
\* when photo_description is non-empty, and never a consistency clause.
C27_ClausesExclusive ==
    \A a \in SceneCalls :
        LET q == calls[a].prompt IN
        /\ HasAnchorClause(q) <=> (variant = 3 /\ Truthy(detailed_child_desc))
        /\ HasAnchorClause(q) => AnchorOf(q) = detailed_child_desc
        /\ HasPhotoClause(q) <=>
              (Truthy(photo_description) /\ ~(variant = 3 /\ Truthy(detailed_child_desc)))
        /\ HasPhotoClause(q) => PhotoClauseOf(q) = photo_description
        /\ ~(HasAnchorClause(q) /\ HasPhotoClause(q))

\* C27 witness: a main3.py request with both a photo description and a
\* detailed description at hand: its prompt has the consistency clause only.
C27_Witness ==
    /\ variant = 3
    /\ Truthy(photo_description)
    /\ Truthy(detailed_child_desc)
    /\ \E a \in SceneCalls :
          /\ HasAnchorClause(calls[a].prompt)
          /\ ~HasPhotoClause(calls[a].prompt)

\* ------------------------------------------------------------------------
\* The builder on long stories, of up to MaxPaletteRecords records, in the
\* documents whose image requests all fail: the pages and their backgrounds
\* are drawn as in any other document, with the placeholder for every
\* illustration.
\* ------------------------------------------------------------------------
\* Bound of the model: the longest story of the long documents.
MaxPaletteRecords == 10

InitPalette ==
    /\ variant \in {2, 3}
    /\ original_pdf = [t |-> "pdf", readable |-> TRUE, pages |-> <<<<"s">>>>]
    /\ OPENAI_API_KEY = PyStr(<<"sk">>)
    /\ name = "Kai"
    /\ gender \in Genders
    /\ photo = PyNone
    /\ pc = "build"
    /\ story_text = extract_text_from_pdf(original_pdf)
    /\ \E n \in 0..MaxPaletteRecords :
         /\ analysis_result = StoryOf(n)
         /\ parsed_data = json_loads(StoryOf(n))
         /\ story_data = LocateStoryData(json_loads(StoryOf(n)))
    /\ photo_description = PyNone
    /\ user_image = PyNone
    /\ calls = <<[api |-> "analyzer", outcome |-> "ok"]>>
    /\ messages = <<>>
    /\ pdf_buffer = PyNone
    /\ download = PyNone
    /\ NoLocals
    /\ tmp_files = {}
    /\ module_PASTEL_COLORS = PASTEL_COLORS

\* The top of the loop body with generate_ghibli_scene returning None.
SceneRequestFails == SceneRequest /\ img_data' = PyNone

NextPalette ==
    \/ BuilderStart
    \/ BaseImage
    \/ DescribeBase
    \/ CoverPage
    \/ IntroPage
    \/ SceneRequestFails
    \/ AnimalPage
    \/ EndPage
    \/ SaveReturn

SpecPalette == InitPalette /\ [][NextPalette]_vars

\* seq holds every element of `of` once.
IsPermutation(seq, of) ==
    /\ Len(seq) = Len(of)
    /\ \A k \in 1..Len(of) : \E m \in 1..Len(seq) : seq[m] = of[k]
    /\ \A m, n \in 1..Len(seq) : seq[m] = seq[n] => m = n

\* The background of a page: the colour of its fill.
BgOf(page) == page[CHOOSE k \in 1..Len(page) : page[k].op = "fill"].color

\* The animal page of the record at 0-based position r.
AnimalPageAt(r) == Pages[r + 3]
AnimalPagesDrawn ==
    {r \in 0..(PyLen(story_data) - 1) : r + 3 <= Len(Pages) /\ IsAnimalPage(Pages[r + 3])}

\* C22: in main2.py and main3.py page_colors is a permutation of the 8
\* PASTEL_COLORS from the shuffle to the builder's return; the animal page at
\* position r has the background page_colors[r mod 8], a palette member; and
\* two animal pages have the same background exactly when their positions
\* are congruent modulo 8.
C22_PaletteByPosition ==
    variant \in {2, 3} =>
        /\ Len(PASTEL_COLORS) = 8
        /\ pc \in {"base", "describe", "cover", "intro", "scene", "page", "end", "save"} =>
              /\ IsPermutation(page_colors, PASTEL_COLORS)
              /\ \A r \in AnimalPagesDrawn :
                    BgOf(AnimalPageAt(r)) = page_colors[(r % 8) + 1]
        /\ \A r \in AnimalPagesDrawn :
              \E k \in 1..Len(PASTEL_COLORS) : BgOf(AnimalPageAt(r)) = PASTEL_COLORS[k]
        /\ \A r, q \in AnimalPagesDrawn :
              (BgOf(AnimalPageAt(r)) = BgOf(AnimalPageAt(q))) <=> (r % 8 = q % 8)

\* C22 witness: a returned document of more than 8 records: the ninth animal
\* page has the background of the first, the second one another.
C22_Witness ==
    /\ Returned
    /\ PyLen(story_data) > 8
    /\ AnimalPagesDrawn = 0..(PyLen(story_data) - 1)
    /\ BgOf(AnimalPageAt(8)) = BgOf(AnimalPageAt(0))
    /\ BgOf(AnimalPageAt(1)) # BgOf(AnimalPageAt(0))

\* ------------------------------------------------------------------------
\* Several runs in one session: after a run the user changes the photo and
\* presses the button again.  The script starts over from its first line;
\* the model lets the names story_data, photo_description and user_image
\* keep what the previous run left in them, which is the most a rerun could
\* carry over.
\* ------------------------------------------------------------------------
RerunPhotos == {PyNone, [t |-> "photo", valid |-> TRUE, mode |-> "RGB"]}

InitRerun ==
    /\ variant \in {1, 2, 3}
    /\ original_pdf = [t |-> "pdf", readable |-> TRUE, pages |-> <<<<"s">>>>]
    /\ OPENAI_API_KEY = PyStr(<<"sk">>)
    /\ name = "Kai"
    /\ gender = "she/her"
    /\ photo \in RerunPhotos
    /\ pc = "idle"
    /\ story_text = PyNone
    /\ analysis_result = PyNone
    /\ parsed_data = PyNone
    /\ story_data = PyNone
    /\ photo_description = PyNone
    /\ user_image = PyNone
    /\ calls = <<>>
    /\ messages = <<>>
    /\ pdf_buffer = PyNone
    /\ download = PyNone
    /\ NoLocals
    /\ tmp_files = {}
    /\ module_PASTEL_COLORS = PASTEL_COLORS

\* The script is run again: the module-level assignments are executed anew,
\* the widgets are read, the page is cleared.
Rerun ==
    /\ pc = "done"
    /\ pc' = "idle"
    /\ photo' \in RerunPhotos
    /\ module_PASTEL_COLORS' = PASTEL_COLORS
    /\ story_text' = PyNone
    /\ analysis_result' = PyNone
    /\ parsed_data' = PyNone
    /\ pdf_buffer' = PyNone
    /\ download' = PyNone
    /\ calls' = <<>>
    /\ messages' = <<>>
    /\ UNCHANGED <<variant, original_pdf, OPENAI_API_KEY, name, gender,
                   story_data, photo_description, user_image, builder>>

NextRerun ==
    \/ ButtonPress
    \/ ExtractText
    \/ AnalyzeStory
    \/ ParseLocate
    \/ PhotoStep
    \/ BuilderStart
    \/ BaseImage
    \/ DescribeBase
    \/ CoverPage
    \/ IntroPage
    \/ SceneRequest
    \/ AnimalPage
    \/ EndPage
    \/ SaveReturn
    \/ Deliver
    \/ Rerun

SpecRerun == InitRerun /\ [][NextRerun]_vars

\* The builder is running.
InBuilder == pc \in {"build", "base", "describe", "cover", "intro", "scene", "page", "end", "save"}

\* C23: nothing crosses runs.  The module-level PASTEL_COLORS list is what
\* the script bound it to, whatever was shuffled; and while the builder runs,
\* story_data is the sequence located in this run's analyzer answer,
\* user_image is this run's photo, photo_description is there exactly when
\* this run's photo request returned it, and only then a prompt or the cover
\* carries it.
C23_NothingCrossesRuns ==
    /\ module_PASTEL_COLORS = PASTEL_COLORS
    /\ InBuilder =>
          /\ JsonParses(analysis_result)
          /\ parsed_data = json_loads(analysis_result)
          /\ story_data = LocateStoryData(parsed_data)
          /\ user_image = (IF Truthy(photo) THEN PyImage(photo.mode) ELSE PyNone)
          /\ Truthy(photo_description) <=>
                \E k \in CallsTo("photo") : calls[k].outcome = "ok"
          /\ ~Truthy(photo) => (photo_description = PyNone /\ CallsTo("photo") = {})
          /\ \A a \in SceneCalls :
                HasPhotoClause(calls[a].prompt) => PhotoClauseOf(calls[a].prompt) = photo_description
          /\ (c_pages # <<>> /\ HasImage(c_pages[1])) => Truthy(photo)

\* C23 witness: a run without a photo, started after a run with one, at the
\* photo step: story_data is already this run's, photo_description and
\* user_image still hold what the earlier run left.
C23_Witness ==
    /\ pc = "photo"
    /\ photo = PyNone
    /\ Truthy(photo_description)
    /\ user_image # PyNone
    /\ story_data = LocateStoryData(json_loads(analysis_result))

\* The handler reported that no sequence was found.
SequenceNotFound ==
    \E m \in 1..Len(messages) :
        messages[m] = Msg("error", "Error creating storybook: Could not find animal interaction data in the API response")

\* The other top-level values of the parsed answer that the scan would take.
OtherLists(d) ==
    {d.items[p].v : p \in {q \in 1..Len(d.items) :
        d.items[q].k # "interactions" /\ IsNonEmptyList(d.items[q].v)}}

\* C25: once the answer is parsed and has the key 'interactions', story_data
\* is the value under that key, whatever it is (a usable list, an empty list,
\* a list of malformed records, no list at all) and whatever other lists the
\* answer has, and "could not find" is never reported; that error is
\* reported only for an answer without the key.
C25_InteractionsTakenAsIs ==
    /\ (pc # "parse" /\ parsed_data.t = "odict" /\ HasKey(parsed_data, "interactions")) =>
          /\ \E p \in 1..Len(parsed_data.items) :
                /\ parsed_data.items[p].k = "interactions"
                /\ story_data = parsed_data.items[p].v
          /\ ~SequenceNotFound
    /\ SequenceNotFound =>
          (parsed_data.t = "odict" /\ ~HasKey(parsed_data, "interactions"))

\* C25 witness: the answer has an empty 'interactions' next to another
\* non-empty list, and the run went on with the empty one.
C25_Witness ==
    /\ pc \notin {"idle", "extract", "analyze", "parse"}
    /\ parsed_data.t = "odict"
    /\ HasKey(parsed_data, "interactions")
    /\ OtherLists(parsed_data) # {}
    /\ story_data = PyList(<<>>)
    /\ story_data \notin OtherLists(parsed_data)

\* The records whose image request returned a payload that then raised
\* inside the embedding block: the payload does not decode, or saving or
\* drawing it failed and left its file behind.  A record without
\* 'description' raises before the block and is none of them.
EmbedFailed(r) ==
    \E k \in SceneCallsFor(r) :
        /\ CanSubscript(Iter(story_data)[r + 1], "description")
        /\ Truthy(calls[k].returned)
        /\ ~Decodable(calls[k].returned) \/ TmpFile("scene", r) \in tmp_files
        /\ ~(pc = "page" /\ i = r)
EmbedFailedRecords == {r \in {calls[k].rec : k \in SceneCalls} : EmbedFailed(r)}

EmbedErrors ==
    {m \in 1..Len(messages) : messages[m] = Msg("error", "Error adding illustration")}

\* C26: a record whose image request returned a payload that could not be
\* decoded, saved or drawn gets one error message and, like a record whose
\* request failed, its own page with the story lines and the placeholder and
\* without an image; the loop goes on with the next record, and the
\* returned document has one page per record.
C26_EmbedFailurePlaceholder ==
    /\ Cardinality(EmbedErrors) = Cardinality(EmbedFailedRecords)
    /\ \A r \in EmbedFailedRecords :
          (InBuilder \/ pdf_buffer.t = "buffer") =>
              /\ Len(Pages) >= r + 3
              /\ IsPlaceholderPage(Pages[r + 3], Iter(story_data)[r + 1])
              /\ \A q \in 1..Len(Pages) :
                    TellsRecord(Pages[q], Iter(story_data)[r + 1]) => q = r + 3
              /\ (pdf_buffer.t # "buffer" /\ Len(Pages) = r + 3) =>
                    /\ i = r + 1
                    /\ pc \in {"scene", "page"} <=> r + 1 < PyLen(story_data)
                    /\ pc = "end" <=> r + 1 = PyLen(story_data)
              /\ pdf_buffer.t = "buffer" => Len(Pages) = PyLen(story_data) + 3

\* C26 witness: a returned document whose first record's payload did not
\* decode and whose second record's payload could not be saved or drawn.
C26_Witness ==
    /\ Returned
    /\ EmbedFailedRecords = {0, 1}
    /\ \E k \in SceneCallsFor(0) : ~Decodable(calls[k].returned)
    /\ \E k \in SceneCallsFor(1) : Decodable(calls[k].returned)
    /\ IsPlaceholderPage(Pages[3], Iter(story_data)[1])
    /\ IsPlaceholderPage(Pages[4], Iter(story_data)[2])
    /\ Cardinality(EmbedErrors) = 2

\* C28: in main3.py the description request is made at most once, only after
\* a base-image request that succeeded and before every scene request; after
\* a base-image request that failed there is no description request,
\* detailed_child_desc is None for the rest of the builder, and no scene
\* prompt carries the consistency clause.  The other two scripts make
\* neither request.
C28_DescriptionFollowsBase ==
    /\ variant # 3 => (CallsTo("base") = {} /\ CallsTo("describe") = {})
    /\ Cardinality(CallsTo("describe")) <= 1
    /\ \A d \in CallsTo("describe") :
          /\ \E b \in CallsTo("base") : b < d /\ calls[b].outcome = "ok"
          /\ \A a \in SceneCalls : d < a
    /\ \A a \in SceneCalls : variant = 3 => \E b \in CallsTo("base") : b < a
    /\ (\E b \in CallsTo("base") : calls[b].outcome # "ok") =>
          /\ CallsTo("describe") = {}
          /\ InBuilder => detailed_child_desc = PyNone
          /\ \A a \in SceneCalls : ~HasAnchorClause(calls[a].prompt)
    /\ (\E b \in CallsTo("base") : calls[b].outcome = "ok" /\ Decodable(calls[b].returned)) =>
          (pc \notin {"base", "describe"} => CallsTo("describe") # {})

\* C28 witness: a returned main3.py document whose base-image request failed
\* and whose records were requested without the clause.
C28_Witness ==
    /\ Returned
    /\ variant = 3
    /\ \E b \in CallsTo("base") : calls[b].outcome # "ok"
    /\ Cardinality(SceneCalls) >= 2
    /\ \A a \in SceneCalls : ~HasAnchorClause(calls[a].prompt)

\* The requests that failed, and the messages that tell the user of a
\* failure.
FailedCalls == {k \in 1..Len(calls) : calls[k].outcome # "ok"}
FailureMessages == {m \in 1..Len(messages) : messages[m].kind \in {"error", "warning"}}

\* The steps whose failures are per-item or auxiliary: the photo description,
\* the two base-character steps and the illustration of a record.
AuxiliarySteps == {"photo", "base", "describe", "scene"}

\* C24: every failure is reported and handled by its kind: each failed
\* request has its message, a run that ends without a document has one, and
\* a request of a per-item or auxiliary step, whatever its outcome, never
\* ends the run (a default is substituted and the run continues).
C24_FailuresHandledByKind ==
    /\ [](/\ Cardinality(FailureMessages) >= Cardinality(FailedCalls)
          /\ (pc = "done" /\ download = PyNone) => FailureMessages # {})
    /\ [][(pc \in AuxiliarySteps /\ Len(calls') > Len(calls)) => pc' # "done"]_vars

\* ------------------------------------------------------------------------
\* The handler under fairness: it is one sequential piece of code, every
\* request has a timeout, so a step that can be taken is taken.
\* ------------------------------------------------------------------------
SpecLive == Init /\ [][Next]_vars /\ WF_vars(Next)

\* What the user is shown of the outcome.
SuccessMessages == {m \in 1..Len(messages) : messages[m].kind = "success"}
Offered == download # PyNone

\* The messages of failures after which the run goes on.
NonFatalTexts ==
    {"Image generation failed", "Error adding illustration", "Error adding user photo",
     "Child base image generation failed", "Could not generate base child image",
     "Error generating detailed child description",
     "Using simplified child description for consistency"}

\* C29: every run comes to its end, and at its end it shows either the
\* success message once with the download of the finished document, or no
\* success message, no download and at least one warning or error; success
\* and download appear only in a run whose text was extracted, whose
\* analysis came back and parsed, whose sequence was found and whose builder
\* returned its buffer, and in which every reported failure was one the run
\* goes on after.
C29_RunEndsOneWay ==
    /\ <>(pc = "done")
    /\ [](pc = "done" =>
            \/ /\ Cardinality(SuccessMessages) = 1
               /\ Offered
               /\ download.data = pdf_buffer
            \/ /\ SuccessMessages = {}
               /\ ~Offered
               /\ FailureMessages # {})
    /\ []((Offered \/ SuccessMessages # {}) =>
            /\ pc = "done"
            /\ Truthy(story_text)
            /\ JsonParses(analysis_result)
            /\ parsed_data.t = "odict"
            /\ story_data = LocateStoryData(parsed_data)
            /\ story_data # NotFound
            /\ pdf_buffer.t = "buffer"
            /\ pdf_buffer.saves = 1
            /\ \A m \in FailureMessages : messages[m].text \in NonFatalTexts)

\* C29 witness: a run that reported a failed illustration and still ended
\* with the success message and the download.
C29_Witness ==
    /\ pc = "done"
    /\ Offered
    /\ Cardinality(SuccessMessages) = 1
    /\ \E m \in FailureMessages : messages[m].text = "Image generation failed"
====
